---- MODULE Spec2Model ----
(***************************************************************************)
(* Model of secret_santa.py: the greedy randomized assignment engine       *)
(* (get_assignments), the retry loop of the main block, and the two        *)
(* reporters (pretty_print_assignments, send_assignment_emails).           *)
(*                                                                         *)
(* Participant ids are the numbers 1..n.  A Python dict is a sequence of   *)
(* <<key, value>> pairs in insertion order (the order dict.items() yields).*)
(* A value that may be None is a record [isNone, items].                   *)
(*                                                                         *)
(* sys.argv is fixed for the run and should_send_email, which is computed  *)
(* from it, is read only by the branch that picks the reporter: the model  *)
(* draws it from the command line there, at its single use.                *)
(***************************************************************************)
EXTENDS Integers, Sequences, FiniteSets

VARIABLES
    participant_data,             \* config[PARTICIPANTS_KEY]: id -> exclusion_ids
    should_send_email,            \* main: "True", "False", or "argv" while unread
    pc,                           \* position of the single thread of control
    attempts,                     \* main: attempts
    assignments,                  \* main: assignments (None or dict)
    all_participants_randomized,  \* get_assignments: shuffled list of ids
    idx,                          \* get_assignments: position of the for loop
    remaining_participants,       \* get_assignments: pool of receivers left
    ga_assignments,               \* get_assignments: local dict giver -> getter
    ga_result,                    \* get_assignments: the value returned
    calls,                        \* number of invocations of get_assignments
    uuids_generated,              \* number of evaluations of uuid.uuid4()
    reporter,                     \* the reporter call: [invoked, arg]
    printed,                      \* lines written by pretty_print_assignments
    server,                       \* SMTP connection: "none", "open", "closed"
    send_idx,                     \* send_assignment_emails: position in items()
    sent,                         \* recipients of the messages accepted so far
    send_failed,                  \* an exception is pending in the try block
    raised,                       \* the exception that ended the run, or "none"
    err_attempts                  \* attempts=%s in the infeasibility message

vars == <<participant_data, should_send_email, pc, attempts, assignments,
          all_participants_randomized, idx, remaining_participants,
          ga_assignments, ga_result, calls, uuids_generated, reporter,
          printed, server, send_idx, sent, send_failed, raised, err_attempts>>

\* Largest number of participants in a registry.
MaxN == 3

MAX_ASSIGNMENT_ATTEMPTS == 3

\* The administrator's address, distinct from every participant id.
Admin == 0

----------------------------------------------------------------------------
\* Python values

None == [isNone |-> TRUE, items |-> <<>>]

Dict(items) == [isNone |-> FALSE, items |-> items]

\* Python truthiness of None-or-dict: None and {} are both falsy.
Truthy(v) == ~v.isNone /\ Len(v.items) > 0

Keys(items) == {items[i][1] : i \in DOMAIN items}

Values(items) == {items[i][2] : i \in DOMAIN items}

\* d[k] = v on an insertion-ordered dict: overwrite in place or append.
DictSet(items, k, v) ==
    IF k \in Keys(items)
    THEN [i \in DOMAIN items |-> IF items[i][1] = k THEN <<k, v>> ELSE items[i]]
    ELSE Append(items, <<k, v>>)

----------------------------------------------------------------------------
\* parse_config_file: the registries it can return

AllParticipants(data) == DOMAIN data

RegistriesNoSelf ==
    UNION {[1..n -> SUBSET (1..n)] : n \in 1..MaxN}

\* exclusion_ids.add(person_id); unknown exclusion ids are rejected.
Registries ==
    UNION {{d \in [1..n -> SUBSET (1..n)] : \A p \in 1..n : p \in d[p]} : n \in 1..MaxN}

----------------------------------------------------------------------------
\* get_assignments helpers

\* random.shuffle: every ordering of the keys.
Shuffles(S) ==
    {s \in [1..Cardinality(S) -> S] : \A i, j \in DOMAIN s : i # j => s[i] # s[j]}

AvailableNoExcl(remaining, exclusions) == remaining

\* available_participants = remaining_participants - assignment_exclusions
Available(remaining, exclusions) == remaining \ exclusions

StrandedAtOne(available) == Cardinality(available) <= 1

\* if not available_participants
Stranded(available) == available = {}

RemoveChosenKeep(remaining, assignment) == remaining

\* remaining_participants.remove(assignment)
RemoveChosen(remaining, assignment) == remaining \ {assignment}

StrandResultPartial(partial) == Dict(partial)

\* return None
StrandResult(partial) == None

----------------------------------------------------------------------------
\* main retry loop helpers

InitAttempts == 0

NextAttemptsByTwo(a) == a + 2

\* attempts += 1
NextAttempts(a) == a + 1

LoopCondExtra == attempts <= MAX_ASSIGNMENT_ATTEMPTS + 1 /\ ~Truthy(assignments)

LoopCondStrict == attempts < MAX_ASSIGNMENT_ATTEMPTS /\ ~Truthy(assignments)

LoopCondNoStop == attempts <= MAX_ASSIGNMENT_ATTEMPTS

\* while attempts <= MAX_ASSIGNMENT_ATTEMPTS and not assignments
LoopCond == attempts <= MAX_ASSIGNMENT_ATTEMPTS /\ ~Truthy(assignments)

----------------------------------------------------------------------------
Init ==
    /\ participant_data \in Registries
    /\ should_send_email = "argv"
    /\ pc = "while"
    /\ attempts = InitAttempts
    /\ assignments = None
    /\ all_participants_randomized = <<>>
    /\ idx = 0
    /\ remaining_participants = {}
    /\ ga_assignments = <<>>
    /\ ga_result = None
    /\ calls = 0
    /\ uuids_generated = 0
    /\ reporter = [invoked |-> FALSE, arg |-> None]
    /\ printed = <<>>
    /\ server = "none"
    /\ send_idx = 0
    /\ sent = <<>>
    /\ send_failed = FALSE
    /\ raised = "none"
    /\ err_attempts = 0

mainVars == <<attempts, assignments>>
gaVars == <<all_participants_randomized, idx, remaining_participants,
            ga_assignments, ga_result, calls>>
reportVars == <<uuids_generated, reporter, printed, server, send_idx, sent,
                send_failed>>
errVars == <<raised, err_attempts>>
cfgVars == <<participant_data>>
argvVars == <<should_send_email>>

----------------------------------------------------------------------------
\* get_assignments

\* The loop test succeeds and get_assignments is entered: shuffle, fresh pool.
GetAssignmentsCall ==
    /\ pc = "while"
    /\ LoopCond
    /\ \E order \in Shuffles(AllParticipants(participant_data)) :
          all_participants_randomized' = order
    /\ remaining_participants' = AllParticipants(participant_data)
    /\ ga_assignments' = <<>>
    /\ idx' = 1
    /\ calls' = calls + 1
    /\ pc' = "for"
    /\ UNCHANGED <<ga_result, mainVars, reportVars, errVars, cfgVars, argvVars>>

\* One iteration of the for loop that finds a receiver.
ForAssign ==
    /\ pc = "for"
    /\ idx <= Len(all_participants_randomized)
    /\ LET participant == all_participants_randomized[idx]
           available_participants ==
               Available(remaining_participants, participant_data[participant])
       IN /\ ~Stranded(available_participants)
          /\ \E assignment \in available_participants :
                /\ remaining_participants' =
                       RemoveChosen(remaining_participants, assignment)
                /\ ga_assignments' = DictSet(ga_assignments, participant, assignment)
    /\ idx' = idx + 1
    /\ UNCHANGED <<pc, all_participants_randomized, ga_result, calls,
                   mainVars, reportVars, errVars, cfgVars, argvVars>>

\* One iteration of the for loop that finds nobody available: return None.
ForStrand ==
    /\ pc = "for"
    /\ idx <= Len(all_participants_randomized)
    /\ LET participant == all_participants_randomized[idx]
           available_participants ==
               Available(remaining_participants, participant_data[participant])
       IN Stranded(available_participants)
    /\ ga_result' = StrandResult(ga_assignments)
    /\ pc' = "ret"
    /\ UNCHANGED <<all_participants_randomized, idx, remaining_participants,
                   ga_assignments, calls, mainVars, reportVars, errVars,
                   cfgVars, argvVars>>

\* The for loop is exhausted: return assignments.
ForEnd ==
    /\ pc = "for"
    /\ idx > Len(all_participants_randomized)
    /\ ga_result' = Dict(ga_assignments)
    /\ pc' = "ret"
    /\ UNCHANGED <<all_participants_randomized, idx, remaining_participants,
                   ga_assignments, calls, mainVars, reportVars, errVars,
                   cfgVars, argvVars>>

----------------------------------------------------------------------------
\* main

\* assignments = get_assignments(config); attempts += 1
\* The frame of get_assignments, and with it its locals, is gone.
Return ==
    /\ pc = "ret"
    /\ assignments' = ga_result
    /\ attempts' = NextAttempts(attempts)
    /\ all_participants_randomized' = <<>>
    /\ idx' = 0
    /\ remaining_participants' = {}
    /\ ga_assignments' = <<>>
    /\ ga_result' = None
    /\ pc' = "while"
    /\ UNCHANGED <<calls, reportVars, errVars, cfgVars, argvVars>>

\* The loop test fails with no assignments:
\* raise Exception("... attempts=%s ...")
RaiseInfeasible ==
    /\ pc = "while"
    /\ ~LoopCond
    /\ ~Truthy(assignments)
    /\ raised' = "infeasible"
    /\ err_attempts' = attempts
    /\ pc' = "exit"
    /\ UNCHANGED <<mainVars, gaVars, reportVars, cfgVars, argvVars>>

\* The loop test fails with assignments:
\* assignment_uuid = str(uuid.uuid4().hex[:MAX_ASSIGNMENT_UUID_LENGTH])
GenerateUuid ==
    /\ pc = "while"
    /\ ~LoopCond
    /\ Truthy(assignments)
    /\ uuids_generated' = uuids_generated + 1
    /\ pc' = "report"
    /\ UNCHANGED <<reporter, printed, server, send_idx, sent, send_failed,
                   mainVars, gaVars, errVars, cfgVars, argvVars>>

\* pretty_print_assignments(assignment_uuid, assignments, config)
PrettyPrint ==
    /\ pc = "report"
    /\ should_send_email' = "False"
    /\ reporter' = [invoked |-> TRUE, arg |-> assignments]
    /\ printed' = assignments.items
    /\ pc' = "exit"
    /\ UNCHANGED <<uuids_generated, server, send_idx, sent, send_failed,
                   mainVars, gaVars, errVars, cfgVars>>

----------------------------------------------------------------------------
\* send_assignment_emails

\* The call; smtplib.SMTP(...), starttls(), login(...) succeed and the try
\* block is entered.
SendCallConnected ==
    /\ pc = "report"
    /\ should_send_email' = "True"
    /\ reporter' = [invoked |-> TRUE, arg |-> assignments]
    /\ server' = "open"
    /\ send_idx' = 1
    /\ pc' = "sending"
    /\ UNCHANGED <<uuids_generated, printed, sent, send_failed,
                   mainVars, gaVars, errVars, cfgVars>>

\* The call; one of SMTP(...), starttls(), login(...) raises, outside the try
\* block: the exception leaves the run and server.quit() is not reached.
SendCallConnectFail ==
    /\ pc = "report"
    /\ should_send_email' = "True"
    /\ reporter' = [invoked |-> TRUE, arg |-> assignments]
    /\ raised' = "smtp"
    /\ pc' = "exit"
    /\ UNCHANGED <<err_attempts, uuids_generated, printed, server, send_idx,
                   sent, send_failed, mainVars, gaVars, cfgVars>>

\* server.sendmail to the next giver succeeds.
SendParticipantOk ==
    /\ pc = "sending"
    /\ send_idx <= Len(reporter.arg.items)
    /\ sent' = Append(sent, reporter.arg.items[send_idx][1])
    /\ send_idx' = send_idx + 1
    /\ UNCHANGED <<pc, uuids_generated, reporter, printed, server, send_failed,
                   mainVars, gaVars, errVars, cfgVars, argvVars>>

SendParticipantFailSwallowed ==
    /\ pc = "sending"
    /\ send_idx <= Len(reporter.arg.items)
    /\ send_failed' = TRUE
    /\ send_idx' = send_idx + 1
    /\ UNCHANGED <<pc, uuids_generated, reporter, printed, server, sent,
                   mainVars, gaVars, errVars, cfgVars, argvVars>>

\* server.sendmail to the next giver raises: the except clause raises
\* 'Failed to send all e-mails successfully.' and finally runs server.quit().
SendParticipantFail ==
    /\ pc = "sending"
    /\ send_idx <= Len(reporter.arg.items)
    /\ send_failed' = TRUE
    /\ server' = "closed"
    /\ raised' = "send_failed"
    /\ pc' = "exit"
    /\ UNCHANGED <<err_attempts, uuids_generated, reporter, printed, send_idx,
                   sent, mainVars, gaVars, cfgVars, argvVars>>

\* The summary to the administrator is sent; finally runs server.quit().
SendAdminOk ==
    /\ pc = "sending"
    /\ send_idx > Len(reporter.arg.items)
    /\ sent' = Append(sent, Admin)
    /\ server' = "closed"
    /\ pc' = "exit"
    /\ UNCHANGED <<uuids_generated, reporter, printed, send_idx, send_failed,
                   mainVars, gaVars, errVars, cfgVars, argvVars>>

\* The summary to the administrator raises: except, then finally.
SendAdminFail ==
    /\ pc = "sending"
    /\ send_idx > Len(reporter.arg.items)
    /\ send_failed' = TRUE
    /\ server' = "closed"
    /\ raised' = "send_failed"
    /\ pc' = "exit"
    /\ UNCHANGED <<err_attempts, uuids_generated, reporter, printed, send_idx,
                   sent, mainVars, gaVars, cfgVars, argvVars>>

----------------------------------------------------------------------------
Next ==
    \/ GetAssignmentsCall
    \/ ForAssign
    \/ ForStrand
    \/ ForEnd
    \/ Return
    \/ RaiseInfeasible
    \/ GenerateUuid
    \/ PrettyPrint
    \/ SendCallConnected
    \/ SendCallConnectFail
    \/ SendParticipantOk
    \/ SendParticipantFail
    \/ SendAdminOk
    \/ SendAdminFail

Spec == Init /\ [][Next]_vars

\* The program is one thread that always takes its next step.
FairSpec == Spec /\ WF_vars(Next)

----------------------------------------------------------------------------
\* Vocabulary of the properties

Participants == AllParticipants(participant_data)

\* 1 initial attempt + MAX_ASSIGNMENT_ATTEMPTS retries.
TotalAttempts == MAX_ASSIGNMENT_ATTEMPTS + 1

\* The values get_assignments has returned that are visible in the state.
Returned == (IF pc = "ret" THEN {ga_result} ELSE {}) \cup {assignments}

\* The receiver recorded for giver k.
DictGet(items, k) == items[CHOOSE i \in DOMAIN items : items[i][1] = k][2]

AsFunction(items) == [k \in Keys(items) |-> DictGet(items, k)]

\* A complete assignment honouring every exclusion exists.
Feasible(data) ==
    \E f \in [DOMAIN data -> DOMAIN data] :
        /\ \A p, q \in DOMAIN data : p # q => f[p] # f[q]
        /\ \A p \in DOMAIN data : f[p] \notin data[p]

\* The retry loop of main is over.
LoopEnded == pc \in {"report", "sending", "exit"}

\* Some participant excludes everybody.
Degenerate == \E p \in Participants : participant_data[p] = Participants

\* Three participants, each excluding only themselves.
ThreeFree == participant_data = [p \in 1..3 |-> {p}]

\* The two derangements of three ids, as giver -> receiver.
Derangements3 == {<<2, 3, 1>>, <<3, 1, 2>>}

----------------------------------------------------------------------------
\* C1: every non-None value returned by get_assignments is a bijection on the
\* participant ids: givers = receivers = all ids, and no receiver twice.
C1_Bijection ==
    \A v \in Returned :
        ~v.isNone =>
            /\ Keys(v.items) = Participants
            /\ Values(v.items) = Participants
            /\ Len(v.items) = Cardinality(Participants)
            /\ \A i, j \in DOMAIN v.items : i # j => v.items[i][2] # v.items[j][2]

C1_Witness ==
    /\ pc = "ret"
    /\ ~ga_result.isNone
    /\ Cardinality(Participants) = 3

\* C2: in every non-None value returned, no giver's receiver is in the giver's
\* exclusion set, and nobody is assigned to themselves.
C2_ExclusionRespected ==
    \A v \in Returned :
        ~v.isNone =>
            \A i \in DOMAIN v.items :
                /\ v.items[i][2] \notin participant_data[v.items[i][1]]
                /\ v.items[i][2] # v.items[i][1]

C2_Witness ==
    /\ pc = "ret"
    /\ ~ga_result.isNone
    /\ \E p \in Participants : participant_data[p] # {p}

\* C3: get_assignments is never invoked more than 4 times in a run
\* (1 initial attempt + MAX_ASSIGNMENT_ATTEMPTS = 3 retries).
C3_RetryBound == calls <= TotalAttempts /\ TotalAttempts = 4

C3_Witness == calls = TotalAttempts /\ pc = "for"

\* C4: when some participant excludes everybody, every attempt returns None,
\* and the run raises the infeasibility error, after exactly 4 attempts.
C4_DegenerateInfeasible ==
    /\ [](Degenerate =>
            /\ (pc = "ret" => ga_result.isNone)
            /\ assignments.isNone
            /\ (raised = "infeasible" => calls = TotalAttempts)
            /\ raised \in {"none", "infeasible"})
    /\ (Degenerate ~> (raised = "infeasible"))

C4_Witness ==
    /\ Degenerate
    /\ raised = "infeasible"
    /\ calls = TotalAttempts
    /\ Cardinality(Participants) = 2

C6_AlwaysAssigns ==
    (ThreeFree /\ LoopEnded) =>
        (Truthy(assignments) /\ AsFunction(assignments.items) \in Derangements3)

\* C6 as amended: for three participants without cross-exclusions the retry
\* loop ends either with one of the two derangements or, after 4 failed
\* attempts, without an assignment.
C6_DerangementOrExhausted ==
    ThreeFree =>
        /\ \A v \in Returned :
              ~v.isNone => AsFunction(v.items) \in Derangements3
        /\ LoopEnded =>
              \/ Truthy(assignments)
              \/ assignments.isNone /\ calls = TotalAttempts /\ raised = "infeasible"

C6_Witness ==
    /\ ThreeFree
    /\ LoopEnded
    /\ Truthy(assignments)
    /\ calls >= 2

\* C7: messages go out one giver at a time in dict order, then the
\* administrator summary; after a failed send nothing more is sent, the run
\* ends with the send failure, sent messages stay sent, and the connection
\* is closed whether or not a send failed.
C7_SendInv ==
    LET items == reporter.arg.items IN
    /\ Len(sent) <= Len(items) + 1
    /\ \A i \in DOMAIN sent :
          sent[i] = IF i <= Len(items) THEN items[i][1] ELSE Admin
    /\ (\E i \in DOMAIN sent : sent[i] = Admin) =>
          Len(sent) = Len(items) + 1 /\ ~send_failed
    /\ send_failed => Len(sent) <= Len(items)
    /\ (pc = "exit" /\ server # "none") => server = "closed"
    /\ send_failed => pc = "exit" /\ raised = "send_failed"
    /\ raised = "send_failed" => send_failed /\ server = "closed"
    /\ (pc = "exit" /\ server = "closed" /\ ~send_failed) =>
          raised = "none" /\ Len(sent) = Len(items) + 1

C7_SendStep ==
    /\ send_failed => sent' = sent /\ send_failed'
    /\ Len(sent') >= Len(sent)
    /\ Len(sent') <= Len(sent) + 1
    /\ \A i \in DOMAIN sent : sent'[i] = sent[i]
    /\ server = "closed" => server' = "closed"

C8_GreedyStrands ==
    (pc = "ret" /\ ga_result.isNone) =>
        /\ idx <= Len(all_participants_randomized)
        /\ Len(ga_assignments) = idx - 1
        /\ Available(remaining_participants,
                     participant_data[all_participants_randomized[idx]]) = {}
        /\ Available(Participants,
                     participant_data[all_participants_randomized[idx]]) # {}
              => idx > 1
        /\ idx = 1 => ~Feasible(participant_data)

C8_Witness ==
    /\ pc = "ret"
    /\ ga_result.isNone
    /\ ThreeFree
    /\ Feasible(participant_data)

\* C9: the attempt count in the infeasibility error is the number of
\* invocations of get_assignments, and that number is 4.
C9_ErrorCarriesAttempts ==
    raised = "infeasible" =>
        /\ err_attempts = calls
        /\ calls = TotalAttempts
        /\ TotalAttempts = 4

C9_Witness ==
    /\ raised = "infeasible"
    /\ err_attempts = 4
    /\ Feasible(participant_data)

\* C10: after the first successful attempt no further attempt is made, the
\* reporter gets exactly what that attempt returned, the identifier is
\* generated once, after the success and before any reporting; an infeasible
\* run generates no identifier and reports nothing.
C10_Inv ==
    /\ uuids_generated <= 1
    /\ uuids_generated = 1 => Truthy(assignments)
    /\ (reporter.invoked \/ printed # <<>> \/ sent # <<>> \/ server # "none") =>
          /\ uuids_generated = 1
          /\ reporter.arg = assignments
    /\ printed # <<>> => printed = assignments.items
    /\ raised = "infeasible" =>
          /\ uuids_generated = 0
          /\ ~reporter.invoked
          /\ printed = <<>>
          /\ sent = <<>>
          /\ server = "none"

C10_Step ==
    /\ Truthy(assignments) => calls' = calls /\ assignments' = assignments
    /\ pc = "ret" => assignments' = ga_result
    /\ reporter.invoked => uuids_generated' = uuids_generated

\* C10: the state invariant and the step property of the retry loop.
C10_StopAtFirstSuccess == []C10_Inv /\ [][C10_Step]_vars

C10_Witness ==
    /\ pc = "exit"
    /\ reporter.invoked
    /\ calls = 2
    /\ uuids_generated = 1

====
